---- MODULE Spec2Model ----
(***************************************************************************)
(* Fine Fuel Moisture Code (FFMC) calculator, notebooks/ffmc_calc.py:      *)
(* the one-day update _ffmc_one_step and the series driver ffmc_series.    *)
(*                                                                         *)
(* Floating-point numbers are modelled as fixed-point integers: the real   *)
(* x is the integer x * Scale, every product and quotient truncated to     *)
(* 1/Scale.  The non-finite floats are two reserved integers, NaN and      *)
(* PosInf.  A float also carries its Python type (py = TRUE for a builtin  *)
(* float, FALSE for a numpy.float64): the two differ on division by zero   *)
(* (ZeroDivisionError against inf/nan with a warning).                     *)
(***************************************************************************)
EXTENDS Integers, Sequences, FiniteSets

VARIABLES df, seed_arg, init_ffmc, i, ff, ff_prev, pc, calls, last,
          args, res, spc

vars == <<df, seed_arg, init_ffmc, i, ff, ff_prev, pc, calls, last,
          args, res, spc>>

(***************************************************************************)
(* Fixed-point arithmetic                                                  *)
(***************************************************************************)
Scale == 100 * 100

\* The decimal literal n/d, e.g. D(1472, 10) is 147.2 and D(15, 10000) is 0.0015.
D(n, d) == (n * Scale) \div d

NaN == -(2^30)
PosInf == 2^30

IsNaN(x) == x = NaN
Finite(x) == x # NaN /\ x # PosInf

Abs(x) == IF x < 0 THEN -x ELSE x

\* a * b for a, b >= 0, without leaving 32 bits.
MulU(a, b) ==
    LET ah == a \div Scale
        al == a % Scale
        bh == b \div Scale
        bl == b % Scale
    IN  ah * bh * Scale + ah * bl + al * bh + (al * bl) \div Scale

Mul(a, b) ==
    IF (a < 0) = (b < 0) THEN MulU(Abs(a), Abs(b)) ELSE -MulU(Abs(a), Abs(b))

\* a / b for a >= 0, b > 0, by long division in base 100.
DivU(a, b) ==
    LET q0 == a \div b
        r0 == a % b
        d1 == (r0 * 100) \div b
        r1 == (r0 * 100) % b
        d2 == (r1 * 100) \div b
    IN  q0 * Scale + d1 * 100 + d2

Div(a, b) ==
    IF (a < 0) = (b < 0) THEN DivU(Abs(a), Abs(b)) ELSE -DivU(Abs(a), Abs(b))

\* Comparisons of floats: every comparison with nan is False.
Lt(a, b) == a # NaN /\ b # NaN /\ a < b
Gt(a, b) == a # NaN /\ b # NaN /\ a > b

(***************************************************************************)
(* numpy's elementary functions, to 1/Scale                                *)
(***************************************************************************)
EConst == D(27183, 10000)
Ln2 == D(6931, 10000)

\* The Taylor series of exp, from the term x^(k-1)/(k-1)! on.
RECURSIVE ExpTerms(_, _, _)
ExpTerms(x, term, k) ==
    IF term = 0 THEN 0
    ELSE term + ExpTerms(x, MulU(term, x) \div k, k + 1)

RECURSIVE ExpPos(_)
ExpPos(x) ==
    IF x >= Scale THEN MulU(EConst, ExpPos(x - Scale))
    ELSE ExpTerms(x, Scale, 1)

\* np.exp(x); exp(x) < 1/Scale below -10.
np_exp(x) ==
    IF x >= 0 THEN ExpPos(x)
    ELSE IF -x > 10 * Scale THEN 0
    ELSE DivU(Scale, ExpPos(-x))

\* The series of atanh, from the term z^k/k on (z2 is z^2).
RECURSIVE AtanhTerms(_, _, _)
AtanhTerms(z2, zk, k) ==
    IF zk = 0 THEN 0
    ELSE zk \div k + AtanhTerms(z2, MulU(zk, z2), k + 2)

\* The natural logarithm of x > 0.
RECURSIVE Ln(_)
Ln(x) ==
    IF x >= 2 * Scale THEN Ln2 + Ln(x \div 2)
    ELSE IF x < Scale THEN Ln(x * 2) - Ln2
    ELSE LET z == DivU(x - Scale, x + Scale)
         IN  2 * AtanhTerms(MulU(z, z), z, 1)

\* x ** y for a fractional y > 0: nan for x < 0.
Pow(x, y) ==
    IF x < 0 THEN NaN
    ELSE IF x = 0 THEN 0
    ELSE np_exp(Mul(y, Ln(x)))

RECURSIVE SqrtIter(_, _)
SqrtIter(x, y) ==
    LET y2 == (y + DivU(x, y)) \div 2
    IN  IF y2 >= y THEN y ELSE SqrtIter(x, y2)

\* np.sqrt(x): nan (and a RuntimeWarning) for x < 0.
np_sqrt(x) ==
    IF x < 0 THEN NaN
    ELSE IF x = 0 THEN 0
    ELSE SqrtIter(x, IF x > Scale THEN x ELSE Scale)

(***************************************************************************)
(* Python floats: a value and its type                                     *)
(***************************************************************************)
\* A literal or builtin float (ZeroDivisionError on x / 0.0).
PyFloat(v) == [v |-> v, py |-> TRUE]
\* A numpy.float64 (inf or nan, and a RuntimeWarning, on x / 0.0).
NpFloat(v) == [v |-> v, py |-> FALSE]

\* Python's min(a, b) and max(a, b): the first argument unless the second
\* compares strictly smaller (larger); nan compares False both ways.
PyMin(a, b) == IF Lt(b.v, a.v) THEN b ELSE a
PyMax(a, b) == IF Gt(b.v, a.v) THEN b ELSE a

(***************************************************************************)
(* _ffmc_one_step, stage by stage                                          *)
(***************************************************************************)
\* 1. previous day's mo.  [raised, v]
PrevMoisture(ffp) ==
    LET den == D(595, 10) + ffp.v
    IN  IF IsNaN(ffp.v) THEN [raised |-> FALSE, v |-> NaN]
        ELSE IF den = 0
             THEN IF ffp.py THEN [raised |-> TRUE, v |-> NaN]
                  ELSE [raised |-> FALSE, v |-> PosInf]
        ELSE [raised |-> FALSE,
              v |-> Div(Mul(D(1472, 10), D(101, 1) - ffp.v), den)]

\* The absorbed rain subtracted.
RainFormulaMinus(po, rf, expo) ==
    po - Mul(Mul(Mul(D(425, 10), rf), expo),
             Scale - np_exp(Div(-D(693, 100), rf)))
       - Mul(Mul(D(15, 10000), Mul(po - D(150, 1), po - D(150, 1))),
             np_sqrt(rf))

\* The rain-absorption formula for finite po and rf > 0; expo is
\* np.exp(-100.0 / (251.0 - po)).
RainFormula(po, rf, expo) ==
    po + Mul(Mul(Mul(D(425, 10), rf), expo),
             Scale - np_exp(Div(-D(693, 100), rf)))
       + Mul(Mul(D(15, 10000), Mul(po - D(150, 1), po - D(150, 1))),
             np_sqrt(rf))

\* No ceiling.
RainCeilingNone(mo) == mo

\* The ceiling of the rain-adjusted moisture.
RainCeiling(mo) == IF Gt(mo, D(250, 1)) THEN D(250, 1) ELSE mo

\* Whether the rain branch is taken.
Rained(r) == Gt(r, D(5, 10))

\* 2. rainfall adjustment.  [raised, rf, mo]; po of the type py.
RainAdjust(po, py, r) ==
    IF Rained(r)
    THEN LET rf == r - D(5, 10)
             den == D(251, 1) - po
         IN  IF IsNaN(po) THEN [raised |-> FALSE, rf |-> rf, mo |-> NaN]
             ELSE IF po = PosInf
                  THEN [raised |-> FALSE, rf |-> rf, mo |-> RainCeiling(PosInf)]
             ELSE IF den = 0
                  THEN IF py THEN [raised |-> TRUE, rf |-> rf, mo |-> NaN]
                       ELSE [raised |-> FALSE, rf |-> rf,
                             mo |-> RainCeiling(RainFormula(po, rf, 0))]
             ELSE [raised |-> FALSE, rf |-> rf,
                   mo |-> RainCeiling(
                            RainFormula(po, rf, np_exp(Div(-D(100, 1), den))))]
    ELSE [raised |-> FALSE, rf |-> 0, mo |-> po]

\* The humidity used as given.
ClampRhNone(rh) == rh

\* 3. the clamp of the relative humidity.
ClampRh(rh) ==
    IF Gt(rh, D(100, 1)) THEN D(100, 1)
    ELSE IF Lt(rh, 0) THEN 0
    ELSE rh

\* The temperature term shared by ed and ew.
TempTerm(rh, t) ==
    Mul(Mul(D(18, 100), D(211, 10) - t),
        Scale - np_exp(Mul(-D(115, 1000), rh)))

\* The drying equilibrium moisture content.
Ed(rh, t) ==
    LET p == Pow(rh, D(679, 1000))
    IN  IF IsNaN(p) THEN NaN
        ELSE Mul(D(942, 1000), p)
             + Mul(D(11, 1), np_exp(Div(rh - D(100, 1), D(10, 1))))
             + TempTerm(rh, t)

\* The wetting equilibrium moisture content.
Ew(rh, t) ==
    LET p == Pow(rh, D(753, 1000))
    IN  IF IsNaN(p) THEN NaN
        ELSE Mul(D(618, 1000), p)
             + Mul(D(10, 1), np_exp(Div(rh - D(100, 1), D(10, 1))))
             + TempTerm(rh, t)

\* kl for the humidity fraction h (rh/100 drying, (100-rh)/100 wetting):
\* nan when np.sqrt(w) or h ** 1.7 is.
Kl(h, w) ==
    LET sw == np_sqrt(w)
        p == Pow(h, D(17, 10))
    IN  IF IsNaN(sw) \/ IsNaN(p) THEN NaN
        ELSE Mul(D(424, 1000), Scale - p)
             + Mul(Mul(D(694, 10000), sw), Scale - Pow(h, D(8, 1)))

\* kw from kl and the temperature.
Kw(kl, t) ==
    IF IsNaN(kl) THEN NaN
    ELSE Mul(Mul(kl, D(581, 1000)), np_exp(Mul(D(365, 10000), t)))

\* 10.0 ** (-kw)
TenPow(kw) == IF IsNaN(kw) THEN NaN ELSE Pow(D(10, 1), -kw)

\* The boundary mo = ed taken as drying.
IsDryingInclusive(mo, ed) == Lt(mo, ed) \/ (Finite(mo) /\ mo = ed)

\* The branch on mo < ed.
IsDrying(mo, ed) == Lt(mo, ed)

\* The mo < ed branch: mo is finite there.
DryingM(mo, ed, rh, t, w) ==
    LET f == TenPow(Kw(Kl(Div(rh, D(100, 1)), w), t))
    IN  IF IsNaN(f) \/ IsNaN(ed) THEN NaN ELSE ed - Mul(ed - mo, f)

\* The else branch: mo may be nan or inf (10.0 ** (-kw) is positive).
WettingM(mo, rh, t, w) ==
    LET ew == Ew(rh, t)
        f == TenPow(Kw(Kl(Div(D(100, 1) - rh, D(100, 1)), w), t))
    IN  IF IsNaN(f) \/ IsNaN(mo) \/ IsNaN(ew) THEN NaN
        ELSE IF mo = PosInf THEN PosInf
        ELSE ew + Mul(mo - ew, f)

\* 4. back-transform to FFMC; m is a numpy.float64.
BackTransform(m) ==
    LET den == D(1472, 10) + m
    IN  IF IsNaN(m) \/ m = PosInf THEN NaN
        ELSE IF den = 0 THEN PosInf
        ELSE Div(Mul(D(595, 10), D(250, 1) - m), den)

\* The value returned as computed.
ClampFfmcNone(ffmc) == NpFloat(ffmc)

\* Only the clamp from below.
ClampFfmcLowOnly(ffmc) == PyMax(NpFloat(ffmc), PyFloat(0))

\* return max(min(ffmc, 101.0), 0.0)
ClampFfmc(ffmc) ==
    PyMax(PyMin(NpFloat(ffmc), PyFloat(D(101, 1))), PyFloat(0))

\* What a call that raised ZeroDivisionError leaves.
Raised(po, rf) ==
    [raised |-> TRUE, po |-> po, rf |-> rf, mo |-> NaN, rh |-> NaN,
     ed |-> NaN, drying |-> FALSE, m |-> NaN, ffmc |-> NaN,
     ret |-> NpFloat(NaN)]

\* The call: its outcome and the values of its locals.
_ffmc_one_step(t, rh, w, r, ffp) ==
    LET s1 == PrevMoisture(ffp)
        s2 == RainAdjust(s1.v, ffp.py, r)
        rhc == ClampRh(rh)
        ed == Ed(rhc, t)
        dry == IsDrying(s2.mo, ed)
        m == IF dry THEN DryingM(s2.mo, ed, rhc, t, w)
             ELSE WettingM(s2.mo, rhc, t, w)
        ffmc == BackTransform(m)
    IN  IF s1.raised THEN Raised(NaN, 0)
        ELSE IF s2.raised THEN Raised(s1.v, s2.rf)
        ELSE [raised |-> FALSE, po |-> s1.v, rf |-> s2.rf, mo |-> s2.mo,
              rh |-> rhc, ed |-> ed, drying |-> dry, m |-> m,
              ffmc |-> ffmc, ret |-> ClampFfmc(ffmc)]

(***************************************************************************)
(* Inputs                                                                  *)
(***************************************************************************)
MaxLen == 2
MaxLenPar == 2

\* A row of the DataFrame, by its columns.
Row(t, rh, w, r) ==
    [temp_13LT_C |-> t, rh_avg_pc |-> rh, wind_avg_kmh |-> w, rain_mm |-> r]

RefRow == Row(D(17, 1), D(42, 1), D(25, 1), 0)
RainRow == Row(D(20, 1), D(45, 1), D(10, 1), D(5, 1))
HumidRow == Row(D(20, 1), D(150, 1), D(5, 1), 0)
DryRow == Row(D(35, 1), 0, D(10, 1), 0)
NegWindRow == Row(D(20, 1), D(45, 1), -D(1, 1), 0)
NegRainRow == Row(D(20, 1), D(45, 1), D(10, 1), -D(1, 1))

Rows == {RefRow, RainRow, HumidRow, DryRow, NegWindRow, NegRainRow}
RowsPar == {RefRow, RainRow}

\* init_ffmc=85.0
DefaultSeed == PyFloat(D(85, 1))

\* The init_ffmc argument of a call: given, or left out.
Given(x) == [given |-> TRUE, val |-> x]
Omitted == [given |-> FALSE, val |-> PyFloat(0)]

SeedValues ==
    {PyFloat(D(50, 1)), PyFloat(0), PyFloat(D(101, 1)), PyFloat(-D(10, 1)),
     PyFloat(-D(595, 10)), NpFloat(-D(595, 10))}
Seeds == {Given(x) : x \in SeedValues} \cup {Omitted}
SeedsPar == {Omitted}


\* The sequences over S of length at most n.
SeqsUpTo(S, n) == UNION {[1..k -> S] : k \in 0..n}

\* The inputs of one call of _ffmc_one_step.
\* The temperature at which ed, at rh = 45, is the moisture of ff_prev = 85.
BoundaryTemp == D(29, 1000)
Temps == {-D(10, 1), BoundaryTemp, D(20, 1), D(35, 1)}
Humidities == {-D(5, 1), 0, D(45, 1), D(100, 1), D(150, 1)}
Winds == {-D(1, 1), 0, D(5, 1), D(10, 1)}
RainAmounts == {-D(1, 1), 0, D(5, 10), D(6, 10), D(5, 1), D(30, 1)}
PrevValues ==
    {PyFloat(0), PyFloat(D(85, 1)), PyFloat(D(101, 1)), PyFloat(D(120, 1)),
     PyFloat(-D(10, 1)), PyFloat(-D(595, 10)), NpFloat(-D(595, 10))}

Args(t, rh, w, r, ffp) == [t |-> t, rh |-> rh, w |-> w, r |-> r, ff_prev |-> ffp]

(***************************************************************************)
(* State                                                                   *)
(***************************************************************************)
\* An element of np.empty(n) that was never assigned.
Uninit == NaN - 1

\* No call of _ffmc_one_step yet.
NoCall ==
    [raised |-> FALSE, po |-> NaN, rf |-> 0, mo |-> NaN, rh |-> NaN,
     ed |-> NaN, drying |-> FALSE, m |-> NaN, ffmc |-> NaN,
     ret |-> NpFloat(NaN)]

NoArgs == Args(0, 0, 0, 0, PyFloat(0))

Chains == DOMAIN pc

\* ffmc_series(df, init_ffmc=85.0) called once per chain of C, up to line 76.
InitSeries(C, rows, seeds, maxlen) ==
    /\ df \in [C -> SeqsUpTo(rows, maxlen)]
    /\ seed_arg \in [C -> seeds]
    /\ init_ffmc = [c \in C |-> IF seed_arg[c].given THEN seed_arg[c].val
                                 ELSE DefaultSeed]
    /\ ff = [c \in C |-> [k \in 1..Len(df[c]) |-> Uninit]]
    /\ ff_prev = init_ffmc
    /\ i = [c \in C |-> 0]
    /\ pc = [c \in C |-> "loop"]
    /\ calls = [c \in C |-> << >>]
    /\ last = [c \in C |-> NoCall]

NoStep == args = NoArgs /\ res = NoCall /\ spc = "idle"

Init == InitSeries({1}, Rows, Seeds, MaxLen) /\ NoStep

InitPar == InitSeries({1, 2}, RowsPar, SeedsPar, MaxLenPar) /\ NoStep

InitStep ==
    /\ InitSeries({}, Rows, Seeds, 0)
    /\ args \in {Args(t, rh, w, r, ffp) :
                   t \in Temps, rh \in Humidities, w \in Winds,
                   r \in RainAmounts, ffp \in PrevValues}
    /\ res = NoCall
    /\ spc = "call"

(***************************************************************************)
(* ffmc_series                                                             *)
(***************************************************************************)
\* The seed, never replaced by the last output.
CarriedSeed(c) == init_ffmc[c]

\* One carried value for all calls.
CarriedShared(c) == ff_prev[1]

\* The carried value of the call c: a local of that call.
Carried(c) == ff_prev[c]

\* The call of _ffmc_one_step on the row at position k (from 1) of chain c.
StepCall(c, k) ==
    LET row == df[c][k]
    IN  _ffmc_one_step(row.temp_13LT_C, row.rh_avg_pc, row.wind_avg_kmh,
                       row.rain_mm, Carried(c))

\* One iteration of the loop; an exception of the call leaves the function.
Step(c) ==
    /\ pc[c] = "loop"
    /\ i[c] < Len(df[c])
    /\ LET k == i[c] + 1
           r == StepCall(c, k)
       IN  /\ calls' = [calls EXCEPT ![c] = Append(@, k)]
           /\ last' = [last EXCEPT ![c] = r]
           /\ IF r.raised
              THEN /\ pc' = [pc EXCEPT ![c] = "raised"]
                   /\ UNCHANGED <<ff, ff_prev, i>>
              ELSE /\ ff' = [ff EXCEPT ![c][k] = r.ret.v]
                   /\ ff_prev' = [ff_prev EXCEPT ![c] = r.ret]
                   /\ i' = [i EXCEPT ![c] = k]
                   /\ pc' = pc
    /\ UNCHANGED <<df, seed_arg, init_ffmc, args, res, spc>>

\* Returns before the last row.
ReturnEarly(c) ==
    /\ pc[c] = "loop"
    /\ i[c] + 1 >= Len(df[c])
    /\ pc' = [pc EXCEPT ![c] = "done"]
    /\ UNCHANGED <<df, seed_arg, init_ffmc, i, ff, ff_prev, calls, last,
                   args, res, spc>>

\* The loop is exhausted: return pd.Series(ff, ...).
Return(c) ==
    /\ pc[c] = "loop"
    /\ i[c] = Len(df[c])
    /\ pc' = [pc EXCEPT ![c] = "done"]
    /\ UNCHANGED <<df, seed_arg, init_ffmc, i, ff, ff_prev, calls, last,
                   args, res, spc>>

\* One call of _ffmc_one_step on its own.
Call ==
    /\ spc = "call"
    /\ res' = _ffmc_one_step(args.t, args.rh, args.w, args.r, args.ff_prev)
    /\ spc' = IF res'.raised THEN "raised" ELSE "returned"
    /\ UNCHANGED <<df, seed_arg, init_ffmc, i, ff, ff_prev, pc, calls, last,
                   args>>

Next ==
    \/ \E c \in Chains : Step(c)
    \/ \E c \in Chains : Return(c)

NextStep == Call

Spec == Init /\ [][Next]_vars

SpecPar == InitPar /\ [][Next]_vars

SpecStep == InitStep /\ [][NextStep]_vars

(***************************************************************************)
(* Properties of one call of _ffmc_one_step (SpecStep)                     *)
(***************************************************************************)
\* A finite value of the FFMC scale.
InRange(v) == Finite(v) /\ 0 <= v /\ v <= D(101, 1)

\* The call is over: it returned or raised.
CallOver == spc \in {"returned", "raised"}

\* The call of the state with another humidity, another rain.
WithRh(rh) == _ffmc_one_step(args.t, rh, args.w, args.r, args.ff_prev)
WithRain(r) == _ffmc_one_step(args.t, args.rh, args.w, r, args.ff_prev)

\* C1 as stated: every call with w >= 0 and r >= 0 returns a value in [0, 101].
C1_Original ==
    (CallOver /\ args.w >= 0 /\ args.r >= 0)
        => (spc = "returned" /\ InRange(res.ret.v))

\* C1 amended: every call with w >= 0, r >= 0 and ff_prev in [0, 101] returns
\* a value in [0, 101], which is the back-transformed value clamped to 101
\* from above and to 0 from below.
C1_Amended ==
    (CallOver /\ args.w >= 0 /\ args.r >= 0 /\ InRange(args.ff_prev.v))
        => /\ spc = "returned"
           /\ InRange(res.ret.v)
           /\ Finite(res.ffmc)
           /\ res.ret.v = (IF res.ffmc > D(101, 1) THEN D(101, 1)
                           ELSE IF res.ffmc < 0 THEN 0 ELSE res.ffmc)

\* The clamp from above acted on a valid call.
C1_Witness ==
    /\ spc = "returned" /\ args.w >= 0 /\ args.r >= 0
    /\ InRange(args.ff_prev.v)
    /\ res.ffmc > D(101, 1)
    /\ res.ret.v = D(101, 1)

\* C4: a humidity above 100 gives the call of humidity 100, one below 0 the
\* call of humidity 0: the same outcome (no error of its own) and the same
\* value.
C4_HumidityClamp ==
    CallOver =>
        /\ args.rh > D(100, 1) => res = WithRh(D(100, 1))
        /\ args.rh < 0 => res = WithRh(0)

\* The call t=20, rh=150, w=5, r=0, ff_prev=85 returned what rh=100 returns.
C4_Witness ==
    /\ spc = "returned"
    /\ args = Args(D(20, 1), D(150, 1), D(5, 1), 0, PyFloat(D(85, 1)))
    /\ res.rh = D(100, 1)
    /\ res.ret = WithRh(D(100, 1)).ret
    /\ res.ret # WithRh(D(45, 1)).ret

\* C6: with ff_prev in [0, 101], the moisture mo after the rain stage does
\* not decrease when the rain grows (no rain, r <= 0.5, included), and at
\* t=20, rh=45, w=10, ff_prev=85 the results for r=0 and r=5 differ.
C6_MonotonicRain ==
    (spc = "returned" /\ InRange(args.ff_prev.v))
        => /\ \A r2 \in RainAmounts :
                 args.r <= r2
                    => /\ ~WithRain(r2).raised
                       /\ res.mo <= WithRain(r2).mo
           /\ (args = Args(D(20, 1), D(45, 1), D(10, 1), 0, PyFloat(D(85, 1))))
                 => res.ret # WithRain(D(5, 1)).ret

\* A light rain raised the moisture, a heavier one raises it further.
C6_Witness ==
    /\ spc = "returned"
    /\ args = Args(D(20, 1), D(45, 1), D(10, 1), D(6, 10), PyFloat(D(85, 1)))
    /\ res.po < res.mo
    /\ res.mo < WithRain(D(5, 1)).mo
    /\ WithRain(0).mo = res.po

\* C8: with r <= 0.5 (0.5 included) the rain stage leaves the moisture as it
\* was and the call returns what r = 0.5 returns; with r > 0.5 the effective
\* rain rf = r - 0.5 is positive and the moisture after the stage is at most
\* 250.
C8_RainStage ==
    spc = "returned" =>
        /\ args.r <= D(5, 10)
              => /\ res.mo = res.po
                 /\ res = WithRain(D(5, 10))
        /\ args.r > D(5, 10)
              => /\ res.rf = args.r - D(5, 10)
                 /\ res.rf > 0
                 /\ Finite(res.mo)
                 /\ res.mo <= D(250, 1)

\* A heavy rain on wet fuel met the ceiling.
C8_Witness ==
    /\ spc = "returned"
    /\ args.r = D(30, 1)
    /\ args.ff_prev = PyFloat(0)
    /\ res.po < D(250, 1)
    /\ res.mo = D(250, 1)

\* C9: the drying formula gives m exactly when mo < ed, the wetting formula
\* otherwise, mo = ed included.
C9_BranchChoice ==
    (spc = "returned" /\ Finite(res.mo) /\ args.w >= 0)
        => /\ res.drying <=> res.mo < res.ed
           /\ res.drying
                 => res.m = res.ed
                            - Mul(res.ed - res.mo,
                                  TenPow(Kw(Kl(Div(res.rh, D(100, 1)), args.w),
                                            args.t)))
           /\ ~res.drying
                 => res.m = Ew(res.rh, args.t)
                            + Mul(res.mo - Ew(res.rh, args.t),
                                  TenPow(Kw(Kl(Div(D(100, 1) - res.rh,
                                                   D(100, 1)), args.w),
                                            args.t)))

\* A call on the boundary mo = ed, where the two formulas differ, took the
\* wetting one.
C9_Witness ==
    /\ spc = "returned"
    /\ args.t = BoundaryTemp
    /\ args.w = D(10, 1)
    /\ res.mo = res.ed
    /\ ~res.drying
    /\ res.m # res.ed
    /\ res.m = WettingM(res.mo, res.rh, args.t, args.w)
    /\ res.m # DryingM(res.mo, res.ed, res.rh, args.t, args.w)

(***************************************************************************)
(* Properties of ffmc_series (Spec, SpecPar)                               *)
(***************************************************************************)
\* 1, 2, ..., n
UpTo(n) == [k \in 1..n |-> k]

\* The row is of the documented domain: wind and rain are not negative.
ValidRow(row) == row.wind_avg_kmh >= 0 /\ row.rain_mm >= 0

\* The rows chain c has consumed are valid.
ValidSoFar(c) == \A k \in 1..Len(calls[c]) : ValidRow(df[c][k])

\* The seed of chain c is on the FFMC scale.
ValidSeed(c) == InRange(init_ffmc[c].v)

\* The call returned one value per row, each assigned, after one call of the
\* updater per row, in the order of the rows.
ReturnedAll(c) ==
    /\ pc[c] = "done"
    /\ calls[c] = UpTo(Len(df[c]))
    /\ Len(ff[c]) = Len(df[c])
    /\ \A k \in 1..Len(ff[c]) : ff[c][k] # Uninit

\* What is left of the call c: the rows to go, and the return.
Variant(c) == Len(df[c]) - i[c] + (IF pc[c] = "loop" THEN 1 ELSE 0)

\* C2 as stated: for every series and every seed, a call that is over has
\* returned one value per row (none for no row) and did not raise.
C2_Original == pc[1] # "loop" => ReturnedAll(1)

\* C2 amended: for every series and every seed in [0, 101] the call ends
\* (each step takes it nearer its end, and the loop is never blocked), and it
\* ends returned, with one value per row after one call of the updater per
\* row in order; while it runs the updater was called on the rows before the
\* current one, once each in order; with no row the call returns the empty
\* output, whatever the seed, and never raises.
C2_Amended ==
    /\ [](/\ pc[1] = "loop" => (i[1] <= Len(df[1]) /\ calls[1] = UpTo(i[1]))
          /\ pc[1] = "done" => ReturnedAll(1)
          /\ pc[1] = "raised" => (~ValidSeed(1) /\ Len(df[1]) > 0)
          /\ Variant(1) >= 0)
    /\ [][Variant(1)' < Variant(1)]_vars

\* A call on two rows returned two values.
C2_Witness ==
    /\ ReturnedAll(1)
    /\ ValidSeed(1)
    /\ Len(ff[1]) = 2
    /\ calls[1] = <<1, 2>>

\* The value the updater is given at row k of chain c, by the recurrence.
PrevOf(c, k) == IF k = 1 THEN init_ffmc[c] ELSE NpFloat(ff[c][k - 1])

\* The call of the updater on row k of chain c, by the recurrence.
Update(c, k) ==
    _ffmc_one_step(df[c][k].temp_13LT_C, df[c][k].rh_avg_pc,
                   df[c][k].wind_avg_kmh, df[c][k].rain_mm, PrevOf(c, k))

\* C3: the output is the left fold of the updater: output[0] is the update
\* of the first row from the seed (85.0 when the seed is left out), every
\* later output[i] the update of row i from output[i-1]; a call raises only
\* where that update does.
C3_LeftFold ==
    /\ ~seed_arg[1].given => init_ffmc[1] = PyFloat(D(85, 1))
    /\ seed_arg[1].given => init_ffmc[1] = seed_arg[1].val
    /\ \A k \in 1..i[1] : ~Update(1, k).raised /\ ff[1][k] = Update(1, k).ret.v
    /\ pc[1] = "raised" => Update(1, i[1] + 1).raised

\* A call without a seed returned two different values.
C3_Witness ==
    /\ pc[1] = "done"
    /\ ~seed_arg[1].given
    /\ Len(ff[1]) = 2
    /\ Finite(ff[1][1]) /\ Finite(ff[1][2])
    /\ ff[1][1] # ff[1][2]
    /\ ff[1][2] = Update(1, 2).ret.v

\* C5: a row with a negative wind or a negative rain is rejected: the call of
\* the updater on it raises, and the driver raises with it, carrying no
\* result forward.
C5_Rejected ==
    \A k \in 1..Len(calls[1]) :
        ~ValidRow(df[1][k]) => (pc[1] = "raised" /\ i[1] < k)

\* C10: with a seed in [0, 101] and valid rows, the carried value is the
\* last output and lies in [0, 101] after every step, so that no call
\* raises, every call is given ff_prev in [0, 101], and its po lies in
\* [0, 147.2 * 101 / 59.5], below 251.
C10_Carried ==
    (ValidSeed(1) /\ ValidSoFar(1))
        => /\ pc[1] # "raised"
           /\ InRange(ff_prev[1].v)
           /\ D(595, 10) + ff_prev[1].v >= D(595, 10)
           /\ i[1] > 0 => ff_prev[1].v = ff[1][i[1]]
           /\ calls[1] # << >>
                 => /\ ~last[1].raised
                    /\ Finite(last[1].po)
                    /\ 0 <= last[1].po
                    /\ last[1].po <= Div(Mul(D(1472, 10), D(101, 1)), D(595, 10))
                    /\ D(251, 1) - last[1].po > 0
                    /\ last[1].ret = ff_prev[1]

\* Two steps on valid rows, the second from the output of the first.
C10_Witness ==
    /\ ValidSeed(1) /\ ValidSoFar(1)
    /\ i[1] = 2
    /\ last[1].po > 0
    /\ last[1].po = PrevMoisture(NpFloat(ff[1][1])).v
    /\ ff_prev[1].v = ff[1][2]
    /\ ff[1][1] # init_ffmc[1].v

\* The output of ffmc_series(rows, seed) run alone, as far as row n.
RECURSIVE Run(_, _, _)
Run(rows, seed, n) ==
    IF n = 0 THEN << >>
    ELSE LET before == Run(rows, seed, n - 1)
             prev == IF n = 1 THEN seed ELSE NpFloat(before[n - 1])
         IN  Append(before,
                    _ffmc_one_step(rows[n].temp_13LT_C, rows[n].rh_avg_pc,
                                   rows[n].wind_avg_kmh, rows[n].rain_mm,
                                   prev).ret.v)

\* C7: with the steps of two calls interleaved in any order, the outputs of
\* each are those of the call run alone, a function of its rows and its seed:
\* two calls with the same rows and seed return the same output.
C7_NoSharedState ==
    /\ \A c \in Chains :
          /\ pc[c] # "raised"
          /\ LET alone == Run(df[c], init_ffmc[c], i[c])
             IN  \A k \in 1..i[c] : ff[c][k] = alone[k]
    /\ (/\ pc[1] = "done" /\ pc[2] = "done"
        /\ df[1] = df[2] /\ init_ffmc[1] = init_ffmc[2])
          => ff[1] = ff[2]

\* Two calls on different inputs, each one step into its two rows.
C7_Witness ==
    /\ pc[1] = "loop" /\ pc[2] = "loop"
    /\ Len(df[1]) = 2 /\ Len(df[2]) = 2
    /\ i[1] = 1 /\ i[2] = 1
    /\ df[1] # df[2]
    /\ ff_prev[1] # ff_prev[2]

====
